---- MODULE Spec2Model ----
(***************************************************************************)
(* Model of the order-bot backend (src/server.js).  The file holds two     *)
(* variants of the server: lines 1-228 (variant 1: fast path, regex fence  *)
(* stripping, distance endpoints) and lines 229-382 (variant 2: no fast    *)
(* path, direct parse then fenced-block extraction).  A deployment runs    *)
(* one of them; `variant` says which.                                      *)
(*                                                                         *)
(* SpecResolver drives getPersonalizedRecommendations directly, one call   *)
(* at a time, over menus, queries and model replies.  Spec drives the HTTP *)
(* handlers with several requests in flight, interleaved at their awaits.  *)
(***************************************************************************)
EXTENDS Integers, Sequences, FiniteSets, TLC

\* ------------------------------------------------------------------ bounds
MenuSize == 6       \* documents in the fs_food_items catalogue
MaxCands == 2       \* length of the freely enumerated candidate arrays
MaxLong  == 6       \* length of the longest candidate array the model emits

Min(a, b) == IF a <= b THEN a ELSE b
Abs(a)    == IF a < 0 THEN 0 - a ELSE a

\* ------------------------------------------------------------ JS values
\* A JavaScript value as the handlers see it: undefined, a string (a
\* sequence of characters) or a number.
Undef  == [k |-> "undef", s |-> <<>>, n |-> 0]
Str(s) == [k |-> "str", s |-> s, n |-> 0]
Num(n) == [k |-> "num", s |-> <<>>, n |-> n]

\* JS truthiness, as used by `if (query)`, `!message`, `lat && lon`,
\* `hotel.latitude && hotel.longitude`.
Truthy(v) ==
    CASE v.k = "undef" -> FALSE
      [] v.k = "str"   -> Len(v.s) > 0
      [] v.k = "num"   -> v.n # 0

\* String.prototype.toLowerCase on the characters the model uses.
LowerChar(c) ==
    CASE c = "A" -> "a"
      [] c = "B" -> "b"
      [] OTHER   -> c
toLowerCase(s) == [i \in 1..Len(s) |-> LowerChar(s[i])]

\* String.prototype.includes: q occurs in t as a contiguous substring.
includes(t, q) ==
    \E i \in 0..(Len(t) - Len(q)) : SubSeq(t, i + 1, i + Len(q)) = q

\* Array.prototype.slice(0, 5).
slice5(s) == SubSeq(s, 1, Min(Len(s), 5))

\* --------------------------------------------------------------- the menu
Titles == << <<"A", "b">>, <<"b", "a">>, <<"b">> >>
TitleOf(i) == Titles[((i - 1) % 3) + 1]

\* The document with id i of fs_food_items, as { id: doc.id, ...doc.data() }.
MenuItem(i) == [id |-> i, productTitle |-> TitleOf(i), restaurantId |-> ((i - 1) % 3) + 1]
Catalogue == [i \in 1..MenuSize |-> MenuItem(i)]

\* The snapshots a fetch can return: every contiguous run of the catalogue
\* (the empty collection included).  Ids are unique within a snapshot.
Menus == { SubSeq(Catalogue, i, j) : i \in 1..MenuSize, j \in 0..MenuSize }

\* The values `query` / `message` can take.
Queries == { Undef, Str(<<>>), Str(<<"a">>), Str(<<"B">>), Str(<<"A", "b">>), Str(<<"a", "a">>) }
MealTypes == { Undef, Str(<<"b">>) }

\* ------------------------------------------------------- the model's reply
\* The reply text as a sequence of tokens: the code fence, the tags json and
\* JSON, a newline, the JSON punctuation, one token per {id, relevance}
\* object, and the JSON object {} (valid JSON that is not an array).
Tok(t)      == [t |-> t, id |-> 0, relevance |-> 0]
Cand(i, r)  == [t |-> "cand", id |-> i, relevance |-> r]
FENCE == Tok("fence")
NL    == Tok("nl")
LB    == Tok("[")
RB    == Tok("]")
COMMA == Tok(",")
OBJ   == Tok("{}")
TAGj  == Tok("json")
TAGJ  == Tok("JSON")

\* Candidates: two of equal relevance, one of higher relevance, and one whose
\* id is in no menu.  Relevance is in tenths.
Cands == { Cand(1, 5), Cand(2, 5), Cand(2, 9), Cand(0, 9) }

RECURSIVE SeqsUpTo(_, _)
SeqsUpTo(S, n) ==
    IF n = 0 THEN { <<>> }
    ELSE LET P == SeqsUpTo(S, n - 1)
         IN  P \cup { Append(p, x) : p \in { q \in P : Len(q) = n - 1 }, x \in S }

\* The arrays the model can emit: every array of up to MaxCands candidates,
\* and the longer arrays naming the items 1..n, the even ids more relevant.
LongArray(n) == [i \in 1..n |-> Cand(i, IF i % 2 = 0 THEN 9 ELSE 5)]
Arrays ==
    SeqsUpTo(Cands, MaxCands) \cup { LongArray(n) : n \in (MaxCands + 1)..MaxLong }

\* JSON.stringify of an array of candidates.
RECURSIVE Elems(_)
Elems(A) ==
    IF Len(A) = 0 THEN <<>>
    ELSE IF Len(A) = 1 THEN <<A[1]>>
    ELSE <<A[1], COMMA>> \o Elems(Tail(A))
Bare(A)        == <<LB>> \o Elems(A) \o <<RB>>
FencedJson(A)  == <<FENCE, TAGj, NL>> \o Bare(A) \o <<NL, FENCE>>
FencedUpper(A) == <<FENCE, TAGJ, NL>> \o Bare(A) \o <<NL, FENCE>>
FencedPlain(A) == <<FENCE, NL>> \o Bare(A) \o <<NL, FENCE>>
Truncated(A)   == <<LB>> \o Elems(A)

\* What the model sends back: an array in one of five dresses, or a reply
\* that holds no array at all.
ReplyKinds ==
    { [form |-> f, array |-> A] : f \in {"bare", "json", "JSON", "plain", "truncated"}, A \in Arrays }
        \cup { [form |-> f, array |-> <<>>] : f \in {"empty", "object", "fencedObject"} }

\* result.response.text() for a reply kind.
Text(r) ==
    CASE r.form = "bare"         -> Bare(r.array)
      [] r.form = "json"         -> FencedJson(r.array)
      [] r.form = "JSON"         -> FencedUpper(r.array)
      [] r.form = "plain"        -> FencedPlain(r.array)
      [] r.form = "truncated"    -> Truncated(r.array)
      [] r.form = "empty"        -> <<>>
      [] r.form = "object"       -> <<OBJ>>
      [] r.form = "fencedObject" -> <<FENCE, TAGj, NL, OBJ, NL, FENCE>>

\* ------------------------------------------------------------ JSON.parse
\* JSON.parse of a token sequence: whitespace between tokens is insignificant;
\* the text is one value, here an array of candidate objects or the object {}.
\* Anything else is a SyntaxError (ok = FALSE).
StripWs(toks) == SelectSeq(toks, LAMBDA x : x # NL)
WellFormed(inner) ==
    \/ Len(inner) = 0
    \/ /\ Len(inner) % 2 = 1
       /\ \A i \in 1..Len(inner) :
            IF i % 2 = 1 THEN inner[i].t = "cand" ELSE inner[i] = COMMA
ParseFailure == [ok |-> FALSE, isArray |-> FALSE, items |-> <<>>]
JSONparse(toks) ==
    LET t == StripWs(toks)
        n == Len(t)
    IN  IF t = <<OBJ>> THEN [ok |-> TRUE, isArray |-> FALSE, items |-> <<>>]
        ELSE IF n >= 2 /\ t[1] = LB /\ t[n] = RB /\ WellFormed(SubSeq(t, 2, n - 1))
        THEN [ok |-> TRUE, isArray |-> TRUE,
              items |-> SelectSeq(SubSeq(t, 2, n - 1), LAMBDA x : x.t = "cand")]
        ELSE ParseFailure

\* ---------------------------------------------------- variant 1 extraction
\* content.replace(/```(json|JSON)\n|\n```/g, ''): left to right, a fence with
\* a json or JSON tag and the newline after it is removed, and so is a newline
\* followed by a fence; everything else is kept.
RECURSIVE replaceFences(_)
replaceFences(t) ==
    IF Len(t) = 0 THEN <<>>
    ELSE IF Len(t) >= 3 /\ t[1] = FENCE /\ t[2] \in {TAGj, TAGJ} /\ t[3] = NL
    THEN replaceFences(SubSeq(t, 4, Len(t)))
    ELSE IF Len(t) >= 2 /\ t[1] = NL /\ t[2] = FENCE
    THEN replaceFences(SubSeq(t, 3, Len(t)))
    ELSE <<t[1]>> \o replaceFences(Tail(t))

\* String.prototype.trim.
RECURSIVE trim(_)
trim(t) ==
    IF Len(t) = 0 THEN t
    ELSE IF t[1] = NL THEN trim(Tail(t))
    ELSE IF t[Len(t)] = NL THEN trim(SubSeq(t, 1, Len(t) - 1))
    ELSE t

cleanedContent(content) == trim(replaceFences(content))
Extract1(content) == JSONparse(cleanedContent(content))

\* ---------------------------------------------------- variant 2 extraction
\* content.match(/```(?:json)?\s*([\s\S]*?)\s*```/): the first fence that has
\* a later fence; after it an optional json tag and all whitespace are
\* consumed, and the group is the shortest text up to optional whitespace and
\* the next fence.
FencePositions(t) == { i \in 1..Len(t) : t[i] = FENCE }
FirstFence(t) == CHOOSE i \in FencePositions(t) : \A j \in FencePositions(t) : i <= j
RECURSIVE SkipWs(_, _)
SkipWs(t, p) == IF p <= Len(t) /\ t[p] = NL THEN SkipWs(t, p + 1) ELSE p
ClosesAt(t, p) == LET q == SkipWs(t, p) IN q <= Len(t) /\ t[q] = FENCE
jsonMatch(t) ==
    IF Cardinality(FencePositions(t)) < 2 THEN [found |-> FALSE, group |-> <<>>]
    ELSE LET f     == FirstFence(t)
             a     == IF f + 1 <= Len(t) /\ t[f + 1] = TAGj THEN f + 2 ELSE f + 1
             start == SkipWs(t, a)
             stop  == CHOOSE p \in start..Len(t) :
                         /\ ClosesAt(t, p)
                         /\ \A q \in start..(p - 1) : ~ClosesAt(t, q)
         IN  [found |-> TRUE, group |-> SubSeq(t, start, stop - 1)]

\* try { JSON.parse(content) } catch { match the fenced block and parse it,
\* or throw }.
Extract2(content) ==
    IF JSONparse(content).ok THEN JSONparse(content)
    ELSE IF jsonMatch(content).found THEN JSONparse(jsonMatch(content).group)
    ELSE ParseFailure

Extract(v, content) == IF v = 1 THEN Extract1(content) ELSE Extract2(content)

\* ------------------------------------------------------- sort and resolve
\* recommendedItems.sort((a, b) => b.relevance - a.relevance): descending by
\* relevance; Array.prototype.sort is stable.
RECURSIVE insertDesc(_, _)
insertDesc(sorted, x) ==
    IF Len(sorted) = 0 THEN <<x>>
    ELSE IF sorted[Len(sorted)].relevance >= x.relevance THEN Append(sorted, x)
    ELSE Append(insertDesc(SubSeq(sorted, 1, Len(sorted) - 1), x), sorted[Len(sorted)])
\* A sort that puts a candidate before the earlier ones of equal relevance.
RECURSIVE insertBeforeEqual(_, _)
insertBeforeEqual(sorted, x) ==
    IF Len(sorted) = 0 THEN <<x>>
    ELSE IF sorted[Len(sorted)].relevance > x.relevance THEN Append(sorted, x)
    ELSE Append(insertBeforeEqual(SubSeq(sorted, 1, Len(sorted) - 1), x), sorted[Len(sorted)])
RECURSIVE sortUnstable(_)
sortUnstable(A) ==
    IF Len(A) = 0 THEN <<>>
    ELSE insertBeforeEqual(sortUnstable(SubSeq(A, 1, Len(A) - 1)), A[Len(A)])

RECURSIVE sortByRelevance(_)
sortByRelevance(A) ==
    IF Len(A) = 0 THEN <<>>
    ELSE insertDesc(sortByRelevance(SubSeq(A, 1, Len(A) - 1)), A[Len(A)])

\* menu.find(menuItem => menuItem.id === item.id): the first item of that id.
HasId(menu, id) == \E k \in 1..Len(menu) : menu[k].id = id
find(menu, id) ==
    menu[CHOOSE k \in 1..Len(menu) :
            menu[k].id = id /\ \A j \in 1..(k - 1) : menu[j].id # id]

\* recommendedItems.map(item => menu.find(...)).filter(Boolean)
RECURSIVE resolve(_, _)
resolve(items, menu) ==
    IF Len(items) = 0 THEN <<>>
    ELSE IF HasId(menu, items[1].id)
    THEN <<find(menu, items[1].id)>> \o resolve(Tail(items), menu)
    ELSE resolve(Tail(items), menu)

\* ----------------------------------------------------------- the resolver
\* menu.filter(item => item.productTitle.toLowerCase().includes(query.toLowerCase()))
exactMatches(query, menu) ==
    SelectSeq(menu, LAMBDA item :
        includes(toLowerCase(item.productTitle), toLowerCase(query.s)))

\* The fast path with a case-sensitive comparison.
FastPathCaseSensitive(v, query, menu) ==
    /\ v = 1
    /\ Truthy(query)
    /\ Len(SelectSeq(menu, LAMBDA item : includes(item.productTitle, query.s))) > 0

\* Lines 57-67: only variant 1 tries the substring match before the model.
FastPathHit(v, query, menu) ==
    v = 1 /\ Truthy(query) /\ Len(exactMatches(query, menu)) > 0

\* Which of the three instructions the prompt carries.
Directive(v, query, mealType) ==
    IF v = 1
    THEN (IF Truthy(query) THEN "query" ELSE IF Truthy(mealType) THEN "mealType" ELSE "general")
    ELSE (IF Truthy(mealType) THEN "mealType" ELSE IF Truthy(query) THEN "query" ELSE "general")

\* The catch block of the resolver.  Variant 1 (lines 103-107) logs
\* cleanedContent, a const declared inside the try block and out of scope in
\* the catch block: evaluating it throws a ReferenceError, and the async
\* function rejects.  Variant 2 (lines 330-333) returns [].
Returned(value) == [threw |-> FALSE, error |-> "", value |-> value]
Threw(error)    == [threw |-> TRUE, error |-> error, value |-> <<>>]
Catch(v) ==
    IF v = 1 THEN Threw("cleanedContent is not defined") ELSE Returned(<<>>)

\* The rest of the try block once generateContent has resolved with content.
AfterModel(v, menu, content) ==
    LET p == Extract(v, content)
    IN  IF ~p.ok \/ ~p.isArray THEN Catch(v)
        ELSE Returned(resolve(sortByRelevance(p.items), menu))

\* ------------------------------------------------------------------ state
VARIABLES
    variant,    \* which of the two server files is deployed (1 or 2)
    call,       \* a direct call of getPersonalizedRecommendations
    req         \* the HTTP requests in flight, each with its handler's locals
vars == <<variant, call, req>>

NoReply == [form |-> "none", array |-> <<>>]
IdleCall ==
    [pc |-> "idle", query |-> Undef, menu |-> <<>>, mealType |-> Undef,
     directive |-> "", reply |-> NoReply, modelFailed |-> FALSE,
     parsed |-> ParseFailure, out |-> Returned(<<>>), modelCalls |-> 0]

\* ---------------------------------------------- the resolver, called directly
\* Lines 55-85 / 288-303: from the call to the first await.  A fast-path hit
\* returns at once; otherwise the prompt is built and the model is called.
ResolverCall(q, m, mt) ==
    /\ call.pc = "idle"
    /\ call' =
         IF FastPathHit(variant, q, m)
         THEN [call EXCEPT !.pc = "done", !.query = q, !.menu = m, !.mealType = mt,
                           !.out = Returned(slice5(exactMatches(q, m)))]
         ELSE [call EXCEPT !.pc = "awaitModel", !.query = q, !.menu = m, !.mealType = mt,
                           !.directive = Directive(variant, q, mt),
                           !.modelCalls = call.modelCalls + 1]
    /\ UNCHANGED <<variant, req>>

\* Lines 85-102 / 303-329: generateContent resolved with a reply.
ResolverModelReplies(r) ==
    /\ call.pc = "awaitModel"
    /\ call' = [call EXCEPT !.pc = "done", !.reply = r,
                            !.parsed = Extract(variant, Text(r)),
                            !.out = AfterModel(variant, call.menu, Text(r))]
    /\ UNCHANGED <<variant, req>>

\* generateContent rejected: control goes to the catch block.
ResolverModelFails ==
    /\ call.pc = "awaitModel"
    /\ call' = [call EXCEPT !.pc = "done", !.modelFailed = TRUE, !.out = Catch(variant)]
    /\ UNCHANGED <<variant, req>>

\* ------------------------------------------------------------- the places
\* A document of fs_hotels, as { id: doc.id, ...doc.data() }.
Hotel(i, name, la, lo) ==
    [id |-> i, hotelName |-> name, hotelAddress |-> Undef, hotelPhoneNo |-> Undef,
     hotelType |-> Undef, latitude |-> la, longitude |-> lo]
NameA == Str(<<"A">>)
D0 == Str(<<"0">>)
D1 == Str(<<"1">>)
D2 == Str(<<"2">>)
DX == Str(<<"x">>)

\* The snapshots a fetch of fs_hotels can return: none; the places (0,1) and
\* (0,2) with numeric coordinates; the same with string coordinates, farthest
\* first; places with an absent and with a non-numeric coordinate; and seven
\* places with coordinates.
PlaceSets ==
    { <<>>,
      << Hotel(1, NameA, Num(0), Num(1)), Hotel(2, Undef, Num(0), Num(2)) >>,
      << Hotel(1, NameA, D0, D2), Hotel(2, Undef, D0, D1) >>,
      << Hotel(1, NameA, Num(1), Num(2)), Hotel(2, NameA, Undef, Num(1)),
         Hotel(3, NameA, DX, D1), Hotel(4, Undef, Num(1), Num(1)) >>,
      [i \in 1..7 |-> Hotel(i, NameA, Num(1), Num(((i * 3) % 7) + 1))] }

\* parseFloat: a number is itself, a string of one digit is that digit,
\* anything else is NaN (ok = FALSE).
parseFloat(v) ==
    CASE v.k = "num" -> [ok |-> TRUE, v |-> v.n]
      [] v.k = "str" /\ v.s = <<"0">> -> [ok |-> TRUE, v |-> 0]
      [] v.k = "str" /\ v.s = <<"1">> -> [ok |-> TRUE, v |-> 1]
      [] v.k = "str" /\ v.s = <<"2">> -> [ok |-> TRUE, v |-> 2]
      [] OTHER -> [ok |-> FALSE, v |-> 0]

\* geolib.getDistance(...) / 1000 on the degree grid: the library's geodesic
\* distance is stood for by the grid distance, which orders the places of a
\* meridian or parallel as the geodesic does.  A coordinate that is not a
\* number makes the library throw.
getDistance(la1, lo1, la2, lo2) ==
    IF la1.ok /\ lo1.ok /\ la2.ok /\ lo2.ok
    THEN [ok |-> TRUE, v |-> Abs(la1.v - la2.v) + Abs(lo1.v - lo2.v)]
    ELSE [ok |-> FALSE, v |-> 0]

\* a || b for display fields.
OrElse(v, d) == IF Truthy(v) THEN v ELSE d

\* Lines 194-203: the object returned for one hotel.
HotelView(h, d) ==
    [id |-> h.id,
     name |-> OrElse(h.hotelName, Str(<<"U">>)),
     address |-> OrElse(h.hotelAddress, Str(<<"N">>)),
     phone |-> OrElse(h.hotelPhoneNo, Str(<<"P">>)),
     type |-> OrElse(h.hotelType, Str(<<"r">>)),
     latitude |-> h.latitude, longitude |-> h.longitude, distance |-> d]

\* Line 186: .filter(hotel => hotel.latitude && hotel.longitude)
withCoordinates(places) ==
    SelectSeq(places, LAMBDA h : Truthy(h.latitude) /\ Truthy(h.longitude))

HotelDistance(h, latitude, longitude) ==
    getDistance(parseFloat(latitude), parseFloat(longitude),
                parseFloat(h.latitude), parseFloat(h.longitude))

\* Lines 188-209: map with the per-hotel try/catch (null on a throw), then
\* .filter(Boolean).
RECURSIVE mapDistances(_, _, _)
mapDistances(hotels, latitude, longitude) ==
    IF Len(hotels) = 0 THEN <<>>
    ELSE LET d == HotelDistance(hotels[1], latitude, longitude)
             rest == mapDistances(Tail(hotels), latitude, longitude)
         IN  IF d.ok THEN <<HotelView(hotels[1], d.v)>> \o rest ELSE rest

\* Line 210: .sort((a, b) => a.distance - b.distance), stable.
RECURSIVE insertAsc(_, _)
insertAsc(sorted, x) ==
    IF Len(sorted) = 0 THEN <<x>>
    ELSE IF sorted[Len(sorted)].distance <= x.distance THEN Append(sorted, x)
    ELSE Append(insertAsc(SubSeq(sorted, 1, Len(sorted) - 1), x), sorted[Len(sorted)])
RECURSIVE sortByDistance(_)
sortByDistance(A) ==
    IF Len(A) = 0 THEN <<>>
    ELSE insertAsc(sortByDistance(SubSeq(A, 1, Len(A) - 1)), A[Len(A)])

\* Lines 184-211: the body of the nearby-hotels response.
nearbyHotels(places, latitude, longitude) ==
    slice5(sortByDistance(mapDistances(withCoordinates(places), latitude, longitude)))

\* Lines 163-169: the enrichment map.  calculateDistance is defined nowhere
\* in the file, so the first recommendation whose restaurant has coordinates
\* makes the callback throw a ReferenceError, which ends the map.
HasRestaurant(places, id) == \E k \in 1..Len(places) : places[k].id = id
restaurantOf(places, id) ==
    places[CHOOSE k \in 1..Len(places) :
              places[k].id = id /\ \A j \in 1..(k - 1) : places[j].id # id]
NeedsDistance(item, places) ==
    /\ HasRestaurant(places, item.restaurantId)
    /\ Truthy(restaurantOf(places, item.restaurantId).latitude)
    /\ Truthy(restaurantOf(places, item.restaurantId).longitude)
addDistances(recs, places) ==
    IF \E k \in 1..Len(recs) : NeedsDistance(recs[k], places)
    THEN Threw("calculateDistance is not defined")
    ELSE Returned(recs)

\* ------------------------------------------------------- the HTTP requests
Requests == {1, 2}

\* The endpoints each file registers that call the resolver or geolib.
Endpoints(v) == IF v = 1 THEN {"chat", "personalized", "nearby"} ELSE {"chat", "personalized"}

Messages     == { Undef, Str(<<>>), Str(<<"B">>), Str(<<"a", "a">>) }
QueryParams  ==
    { <<Undef, Undef>>, <<Undef, Str(<<"b">>)>>, <<Str(<<"B">>), Undef>>,
      <<Str(<<"a", "a">>), Str(<<"b">>)>> }
LatLons      == { <<Undef, Undef>>, <<D0, D0>>, <<D1, Undef>> }
\* latitude and longitude of a nearby-hotels request: numeric strings.
Points       == { <<D0, D0>>, <<D1, D2>> }
MenuSnapshots == { <<>>, SubSeq(Catalogue, 1, 2), Catalogue }
ModelReplies ==
    { [form |-> "json",  array |-> <<Cand(1, 5), Cand(2, 9)>>],
      [form |-> "plain", array |-> <<Cand(1, 5), Cand(2, 9)>>],
      [form |-> "bare",  array |-> <<Cand(0, 9), Cand(1, 5)>>],
      [form |-> "empty", array |-> <<>>] }

ChatError         == "An error occurred while processing the chat."
PersonalizedError == "Failed to fetch personalized recommendations"
NearbyError       == "Failed to fetch nearby hotels"

\* One request: its parameters, where its handler is suspended, what the
\* store and the model answered it, and its response.
IdleRequest ==
    [ep |-> "", pc |-> "idle", message |-> Undef, mealType |-> Undef,
     lat |-> Undef, lon |-> Undef,
     menu |-> <<>>, menuFailed |-> FALSE,
     reply |-> NoReply, modelFailed |-> FALSE, chatModelFailed |-> FALSE,
     places |-> <<>>, placesFailed |-> FALSE,
     directive |-> "", recommendations |-> <<>>,
     storeCalls |-> 0, modelCalls |-> 0,
     status |-> 0, error |-> "", details |-> "", body |-> <<>>]

\* res.json(body) and res.status(500).json({ error, details }).
Ok(rec, body) == [rec EXCEPT !.pc = "done", !.status = 200, !.body = body]
Fail(rec, details) ==
    [rec EXCEPT !.pc = "done", !.status = 500,
                !.error = (CASE rec.ep = "chat" -> ChatError
                             [] rec.ep = "personalized" -> PersonalizedError
                             [] OTHER -> NearbyError),
                !.details = (IF rec.ep = "chat" THEN details ELSE "")]

\* A validation that insists on the message, whatever the file.
ChatValidMessageOnly(v, message, mealType) == Truthy(message)

\* Line 32 / line 258: the chat handler's validation.
ChatValid(v, message, mealType) ==
    IF v = 1 THEN Truthy(message) \/ Truthy(mealType) ELSE Truthy(message)
ChatInvalidMessage(v) ==
    IF v = 1 THEN "Message or meal type is required" ELSE "Message is required"

\* The mealType the handler hands to the resolver: variant 2's chat handler
\* passes only (message, menu).
ResolverMealType(v, rec) ==
    IF v = 2 /\ rec.ep = "chat" THEN Undef ELSE rec.mealType

\* A menu kept in one module-level variable: the resolver of any request sees
\* the menu of the first request that has one.
SnapshotAny(r) ==
    LET S == { q \in Requests : req[q].pc \in {"model", "fetchHotels", "done"} /\ req[q].storeCalls > 0 }
        f == CHOOSE q \in S \cup {r} : \A o \in S \cup {r} : q <= o
    IN  req[f].menu

\* The menu the resolver works on for a request: the handler's own local.
SnapshotOf(r) == req[r].menu

\* What the handler does once the resolver has settled with `out`.
AfterResolver(v, rec, out) ==
    IF out.threw THEN Fail(rec, out.error)
    ELSE IF rec.ep = "chat" THEN Ok([rec EXCEPT !.recommendations = out.value], out.value)
    ELSE IF v = 1 /\ Truthy(rec.lat) /\ Truthy(rec.lon)
    THEN [rec EXCEPT !.recommendations = out.value, !.pc = "fetchHotels",
                     !.storeCalls = rec.storeCalls + 1]
    ELSE Ok([rec EXCEPT !.recommendations = out.value], out.value)

\* POST /api/chat arrives (lines 28-37 / 254-264).
ReceiveChat(r, message, mealType) ==
    /\ req[r].pc = "idle"
    /\ LET rec == [req[r] EXCEPT !.ep = "chat", !.message = message, !.mealType = mealType]
       IN  req' = [req EXCEPT ![r] =
                IF ~ChatValid(variant, message, mealType)
                THEN Fail(rec, ChatInvalidMessage(variant))
                ELSE IF variant = 1
                THEN [rec EXCEPT !.pc = "fetchMenu", !.storeCalls = 1]
                ELSE [rec EXCEPT !.pc = "chatModel", !.modelCalls = 1]]
    /\ UNCHANGED <<variant, call>>

\* Variant 2, lines 264-269: generateContent(message) resolved.
ChatModelReplies(r) ==
    /\ req[r].pc = "chatModel"
    /\ req' = [req EXCEPT ![r] = [@ EXCEPT !.pc = "fetchMenu", !.storeCalls = @ + 1]]
    /\ UNCHANGED <<variant, call>>

\* Variant 2: generateContent(message) rejected.
ChatModelFails(r) ==
    /\ req[r].pc = "chatModel"
    /\ req' = [req EXCEPT ![r] = Fail([@ EXCEPT !.chatModelFailed = TRUE], "model unavailable")]
    /\ UNCHANGED <<variant, call>>

\* GET /api/personalized-recommendations arrives (lines 149-153 / 366-369).
ReceivePersonalized(r, query, mealType, lat, lon) ==
    /\ req[r].pc = "idle"
    /\ req' = [req EXCEPT ![r] =
                [@ EXCEPT !.ep = "personalized", !.message = query, !.mealType = mealType,
                          !.lat = lat, !.lon = lon, !.pc = "fetchMenu", !.storeCalls = 1]]
    /\ UNCHANGED <<variant, call>>

\* GET /api/nearby-hotels arrives (lines 179-183).
ReceiveNearby(r, latitude, longitude) ==
    /\ req[r].pc = "idle"
    /\ "nearby" \in Endpoints(variant)
    /\ req' = [req EXCEPT ![r] =
                [@ EXCEPT !.ep = "nearby", !.lat = latitude, !.lon = longitude,
                          !.pc = "fetchHotels", !.storeCalls = 1]]
    /\ UNCHANGED <<variant, call>>

\* The fetch of fs_food_items resolved: the handler builds its menu and calls
\* the resolver, which runs to its return or to its await of the model.
MenuFetched(r, menu) ==
    /\ req[r].pc = "fetchMenu"
    /\ LET rec == [req[r] EXCEPT !.menu = menu]
       IN  req' = [req EXCEPT ![r] =
                IF FastPathHit(variant, rec.message, menu)
                THEN AfterResolver(variant, rec, Returned(slice5(exactMatches(rec.message, menu))))
                ELSE [rec EXCEPT !.pc = "model", !.modelCalls = rec.modelCalls + 1,
                                 !.directive = Directive(variant, rec.message,
                                                         ResolverMealType(variant, rec))]]
    /\ UNCHANGED <<variant, call>>

\* The fetch of fs_food_items rejected: the handler's catch block answers.
MenuFetchFails(r) ==
    /\ req[r].pc = "fetchMenu"
    /\ req' = [req EXCEPT ![r] = Fail([@ EXCEPT !.menuFailed = TRUE], "store unavailable")]
    /\ UNCHANGED <<variant, call>>

\* The resolver's generateContent resolved with a reply.
ModelReplied(r, reply) ==
    /\ req[r].pc = "model"
    /\ req' = [req EXCEPT ![r] =
                AfterResolver(variant, [@ EXCEPT !.reply = reply],
                              AfterModel(variant, SnapshotOf(r), Text(reply)))]
    /\ UNCHANGED <<variant, call>>

\* The resolver's generateContent rejected.
ModelFailed(r) ==
    /\ req[r].pc = "model"
    /\ req' = [req EXCEPT ![r] =
                AfterResolver(variant, [@ EXCEPT !.modelFailed = TRUE], Catch(variant))]
    /\ UNCHANGED <<variant, call>>

\* The fetch of fs_hotels resolved (lines 160-172 and 183-213).
HotelsFetched(r, places) ==
    /\ req[r].pc = "fetchHotels"
    /\ LET rec == [req[r] EXCEPT !.places = places]
       IN  req' = [req EXCEPT ![r] =
                IF rec.ep = "nearby"
                THEN Ok(rec, nearbyHotels(places, rec.lat, rec.lon))
                ELSE LET out == addDistances(rec.recommendations, places)
                     IN  IF out.threw THEN Fail(rec, out.error) ELSE Ok(rec, out.value)]
    /\ UNCHANGED <<variant, call>>

\* The fetch of fs_hotels rejected.
HotelsFetchFails(r) ==
    /\ req[r].pc = "fetchHotels"
    /\ req' = [req EXCEPT ![r] = Fail([@ EXCEPT !.placesFailed = TRUE], "store unavailable")]
    /\ UNCHANGED <<variant, call>>

\* ---------------------------------------------------------- specifications
Init ==
    /\ variant \in {1, 2}
    /\ call = IdleCall
    /\ req = [r \in Requests |-> IdleRequest]

NextResolver ==
    \/ \E q \in Queries, m \in Menus, mt \in MealTypes : ResolverCall(q, m, mt)
    \/ \E r \in ReplyKinds : ResolverModelReplies(r)
    \/ ResolverModelFails

Next ==
    \E r \in Requests :
        \/ \E m \in Messages, mt \in MealTypes : ReceiveChat(r, m, mt)
        \/ ChatModelReplies(r)
        \/ ChatModelFails(r)
        \/ \E q \in QueryParams, l \in LatLons :
                ReceivePersonalized(r, q[1], q[2], l[1], l[2])
        \/ \E p \in Points : ReceiveNearby(r, p[1], p[2])
        \/ \E m \in MenuSnapshots : MenuFetched(r, m)
        \/ MenuFetchFails(r)
        \/ \E y \in ModelReplies : ModelReplied(r, y)
        \/ ModelFailed(r)
        \/ \E p \in PlaceSets : HotelsFetched(r, p)
        \/ HotelsFetchFails(r)

SpecResolver == Init /\ [][NextResolver]_vars
Spec         == Init /\ [][Next]_vars

\* ------------------------------------------------------------------ claims
\* The reply kinds that hold no parsable array in any dress.
Malformed(r) == r.form \in {"truncated", "empty", "object", "fencedObject"}
Matches(item, query) == includes(toLowerCase(item.productTitle), toLowerCase(query.s))
MatchCount(query, menu) == Len(SelectSeq(menu, LAMBDA item : Matches(item, query)))
HasMatch(query, menu) == Truthy(query) /\ MatchCount(query, menu) > 0

\* C1: the resolver never raises to its caller: every finished call has
\* returned, and a call whose model call failed or whose reply was malformed
\* has returned the empty sequence.
C1_NeverRaises ==
    call.pc = "done" =>
        /\ ~call.out.threw
        /\ (call.modelFailed \/ Malformed(call.reply)) => call.out.value = <<>>

\* C2: the resolver returns at most 5 items, on the fast path and on the
\* fallback path alike.
C2_AtMostFive ==
    call.pc = "done" /\ ~call.out.threw => Len(call.out.value) <= 5

\* C3 (as claimed): a call with a non-empty query that matches some title,
\* case-insensitively, never invokes the model, and returns the first five (or
\* fewer) matching items in menu order.
C3_Consequent ==
    /\ call.modelCalls = 0
    /\ call.pc = "done" =>
         /\ ~call.out.threw
         /\ Len(call.out.value) = Min(5, MatchCount(call.query, call.menu))
         /\ call.out.value =
              SubSeq(SelectSeq(call.menu, LAMBDA item : Matches(item, call.query)),
                     1, Len(call.out.value))
C3_FastPathAnyVariant ==
    call.pc # "idle" /\ HasMatch(call.query, call.menu) => C3_Consequent

\* C3 (amended): the same, of the file that has the fast path (variant 1).
C3_FastPathVariant1 ==
    variant = 1 /\ call.pc # "idle" /\ HasMatch(call.query, call.menu) => C3_Consequent

\* A fast-path return that had more than five matches to choose from, for a
\* query that matches only case-insensitively.
C3_Witness ==
    /\ variant = 1
    /\ call.pc = "done"
    /\ call.query = Str(<<"B">>)
    /\ MatchCount(call.query, call.menu) > 5
    /\ Len(call.out.value) = 5
    /\ call.modelCalls = 0

\* C4: a reply that wraps an array in a json-tagged fence or in an untagged
\* fence is parsed to what the bare array is parsed to, with the same result.
C4_FenceInsensitive ==
    call.pc = "done" /\ call.reply.form \in {"json", "plain"} =>
        /\ call.parsed = Extract(variant, Bare(call.reply.array))
        /\ call.out = AfterModel(variant, call.menu, Bare(call.reply.array))

\* C5: with a parsable reply the result is the menu items of the candidates
\* whose id is in the menu, by relevance descending, equal relevance in the
\* order of the reply; candidates of unknown id are dropped.
C5_Cands == call.reply.array
C5_Kept ==
    { i \in 1..Len(C5_Cands) : \E k \in 1..Len(call.menu) : call.menu[k].id = C5_Cands[i].id }
C5_Before(j, i) ==
    \/ C5_Cands[j].relevance > C5_Cands[i].relevance
    \/ C5_Cands[j].relevance = C5_Cands[i].relevance /\ j < i
C5_Rank(i) == 1 + Cardinality({ j \in C5_Kept : C5_Before(j, i) })
C5_SortedResolved ==
    call.pc = "done" /\ call.parsed.ok /\ call.parsed.isArray =>
        /\ ~call.out.threw
        /\ call.parsed.items = C5_Cands
        /\ Len(call.out.value) = Cardinality(C5_Kept)
        /\ \A i \in C5_Kept :
             /\ call.out.value[C5_Rank(i)].id = C5_Cands[i].id
             /\ \E k \in 1..Len(call.menu) : call.menu[k] = call.out.value[C5_Rank(i)]

\* A parsed reply with two kept candidates of equal relevance, a candidate of
\* unknown id between or before them, and a more relevant candidate after a
\* less relevant one.
C5_Witness ==
    /\ call.pc = "done" /\ call.parsed.ok /\ call.parsed.isArray
    /\ \E i, j \in C5_Kept :
         i < j /\ C5_Cands[i].relevance = C5_Cands[j].relevance /\ C5_Cands[i].id # C5_Cands[j].id
    /\ \E i, j \in C5_Kept : i < j /\ C5_Cands[i].relevance < C5_Cands[j].relevance
    /\ \E i \in 1..Len(C5_Cands) : i \notin C5_Kept
    /\ Len(call.out.value) >= 3

\* C6: a chat request with a valid body, or a personalized-recommendations
\* request, whose store fetches succeed and whose model call errors or returns
\* an unparsable reply, is answered 200 with an empty list.
C6_ModelFailureIs200 ==
    \A r \in Requests :
        ( /\ req[r].pc = "done"
          /\ req[r].ep \in {"chat", "personalized"}
          /\ req[r].ep = "chat" => (Truthy(req[r].message) \/ Truthy(req[r].mealType))
          /\ ~req[r].menuFailed /\ ~req[r].placesFailed
          /\ req[r].modelFailed \/ req[r].chatModelFailed \/ req[r].reply.form = "empty" )
        => req[r].status = 200 /\ req[r].body = <<>>

\* C7 (as claimed): a chat request with message and mealType both absent is
\* rejected with an error status, an error summary and details, and contacts
\* neither the store nor the model; with either present it passes validation
\* and goes on to fetch the menu.
Absent(v) == v.k = "undef"
C7_Rejected(rec) ==
    /\ rec.pc = "done" /\ rec.status >= 400
    /\ rec.error # "" /\ rec.details # ""
    /\ rec.storeCalls = 0 /\ rec.modelCalls = 0
C7_Proceeds(rec) == rec.pc = "fetchMenu" \/ rec.storeCalls >= 1
C7_AtLeastOnePresent ==
    \A r \in Requests :
        req[r].ep = "chat" =>
            IF Absent(req[r].message) /\ Absent(req[r].mealType)
            THEN C7_Rejected(req[r])
            ELSE C7_Proceeds(req[r])

\* C7 (amended): of variant 1, and with "present" read as the code reads it
\* (truthy: present and not the empty string).
C7_AtLeastOneTruthyVariant1 ==
    \A r \in Requests :
        variant = 1 /\ req[r].ep = "chat" =>
            IF ~Truthy(req[r].message) /\ ~Truthy(req[r].mealType)
            THEN C7_Rejected(req[r])
            ELSE C7_Proceeds(req[r])

\* One chat request rejected at validation and another, with a mealType only,
\* past validation and waiting for the menu.
C7_Witness ==
    /\ variant = 1
    /\ \E r, q \in Requests :
         /\ req[r].ep = "chat" /\ Absent(req[r].message) /\ Absent(req[r].mealType)
         /\ req[r].status = 500
         /\ req[q].ep = "chat" /\ Absent(req[q].message) /\ Truthy(req[q].mealType)
         /\ req[q].pc = "fetchMenu" /\ req[q].storeCalls = 1

\* C8: nearby-hotels answers with the (up to) five nearest of all places that
\* have a latitude and a longitude (and a computable distance), nearest first.
C8_Eligible(rec) ==
    { k \in 1..Len(rec.places) :
        /\ ~Absent(rec.places[k].latitude) /\ ~Absent(rec.places[k].longitude)
        /\ HotelDistance(rec.places[k], rec.lat, rec.lon).ok }
C8_Dist(rec, k) == HotelDistance(rec.places[k], rec.lat, rec.lon).v
C8_NearestOfAll ==
    \A r \in Requests :
        req[r].ep = "nearby" /\ req[r].pc = "done" /\ ~req[r].placesFailed =>
            LET rec == req[r]
                E   == C8_Eligible(rec)
            IN  /\ rec.status = 200
                /\ Len(rec.body) = Min(5, Cardinality(E))
                /\ \A i \in 1..(Len(rec.body) - 1) : rec.body[i].distance <= rec.body[i + 1].distance
                /\ \A i \in 1..Len(rec.body) :
                     \E k \in E : rec.places[k].id = rec.body[i].id /\ C8_Dist(rec, k) = rec.body[i].distance
                /\ \A k \in E :
                     \/ \E i \in 1..Len(rec.body) : rec.body[i].id = rec.places[k].id
                     \/ \A i \in 1..Len(rec.body) : rec.body[i].distance <= C8_Dist(rec, k)

\* C9: a distance that cannot be computed costs one record, not the request:
\* nearby-hotels and personalized-recommendations with lat and lon answer 200
\* when their fetches succeed, and every recommendation whose place has
\* coordinates carries a distance.
C9_DistanceFailureConfined ==
    \A r \in Requests :
        /\ req[r].ep = "nearby" /\ req[r].pc = "done" /\ ~req[r].placesFailed
             => req[r].status = 200
        /\ ( /\ req[r].ep = "personalized" /\ req[r].pc = "done"
             /\ Truthy(req[r].lat) /\ Truthy(req[r].lon)
             /\ req[r].storeCalls = 2 /\ ~req[r].placesFailed )
             => /\ req[r].status = 200
                /\ \A i \in 1..Len(req[r].body) :
                     NeedsDistance(req[r].body[i], req[r].places)
                        => "distance" \in DOMAIN req[r].body[i]

\* C10: the response of a request is a function of its own parameters and of
\* the answers the store and the model gave it, whatever the other requests
\* in flight did.
OwnResolver(v, rec) ==
    IF FastPathHit(v, rec.message, rec.menu)
    THEN Returned(slice5(exactMatches(rec.message, rec.menu)))
    ELSE IF rec.modelFailed THEN Catch(v)
    ELSE AfterModel(v, rec.menu, Text(rec.reply))
OwnResponse(v, rec) ==
    LET bad(e, d) == [status |-> 500, error |-> e, details |-> d, body |-> <<>>]
        good(b)   == [status |-> 200, error |-> "", details |-> "", body |-> b]
        out       == OwnResolver(v, rec)
    IN  CASE rec.ep = "nearby" ->
               IF rec.placesFailed THEN bad(NearbyError, "")
               ELSE good(nearbyHotels(rec.places, rec.lat, rec.lon))
          [] rec.ep = "chat" ->
               IF ~ChatValid(v, rec.message, rec.mealType) THEN bad(ChatError, ChatInvalidMessage(v))
               ELSE IF rec.chatModelFailed THEN bad(ChatError, "model unavailable")
               ELSE IF rec.menuFailed THEN bad(ChatError, "store unavailable")
               ELSE IF out.threw THEN bad(ChatError, out.error)
               ELSE good(out.value)
          [] rec.ep = "personalized" ->
               IF rec.menuFailed \/ out.threw \/ rec.placesFailed THEN bad(PersonalizedError, "")
               ELSE IF v = 1 /\ Truthy(rec.lat) /\ Truthy(rec.lon)
                       /\ addDistances(out.value, rec.places).threw
               THEN bad(PersonalizedError, "")
               ELSE good(out.value)
C10_RequestsIndependent ==
    \A r \in Requests :
        req[r].pc = "done" =>
            [status |-> req[r].status, error |-> req[r].error,
             details |-> req[r].details, body |-> req[r].body] = OwnResponse(variant, req[r])

\* One request answered from the model's reply while another, with another
\* menu and another query, is suspended at its own model call.
C10_Witness ==
    \E r, q \in Requests :
        /\ req[r].pc = "done" /\ req[r].status = 200 /\ req[r].reply.form # "none"
        /\ Len(req[r].body) > 0
        /\ req[q].pc = "model"
        /\ req[q].menu # req[r].menu /\ req[q].message # req[r].message

====
